---- MODULE Spec2Model ----
(***************************************************************************)
(* A state-machine model of custom-select.js (the CustomSelect jQuery      *)
(* plugin): a native <select> (selectElement) is replaced by a wrapper     *)
(* holding a trigger button and a list of <li><button> options, and the    *)
(* event handlers keep the custom list, the trigger text and the native    *)
(* <select> in step.                                                       *)
(*                                                                         *)
(* Indices are jQuery's: 0-based, -1 for "not found"; sequence k+1 holds   *)
(* the element of index k.                                                 *)
(***************************************************************************)
EXTENDS Integers, Sequences, FiniteSets, TLC

\* Largest number of <option> children of the native <select>.
MaxOptions == 3

\* The value attributes an <option> may carry: a plain string, a string
\* that reads as a number and a string that reads as a boolean literal
\* (all free of the characters that would break the markup of line 253 or
\* the selector of line 191). Two options may carry the same value.
Values == {"a", "1", "true"}

\* The text of the option at each position (plain text, no markup).
Labels == <<"Apple", "Banana", "Cherry", "Date", "Elderberry">>

\* What selectElement.val() reads when no option of the <select> is selected.
NoValue == "<null>"

\* The key codes of the keyup events: the four arrows and Enter.
KeyCodes == {13, 37, 38, 39, 40}

\* The class names of the defaults table that the wrapper can carry.
disabledClass == "disabled"
focusClass == "focus"
expandedClass == "expanded"

VARIABLES
    selectOptions,  \* the <option>s of the native <select>: [value, text, selected]
    selectValue,    \* the current value of the native <select>
    unmatchedFirst, \* the platform selects the first option when val() matches none
    disabled,       \* the closure's disabled flag
    expanded,       \* the closure's expanded flag
    wrapperClass,   \* the classes on the wrapper <div>
    list,           \* the <li>s of the custom list: [value (data-value), text, selected]
    triggerText,    \* the text of the trigger button
    last,           \* the event handled last: [type, arg, prevented]
    pc              \* the statement of handleCustomListClick to run next
                    \* ("idle" between events)

vars == <<selectOptions, selectValue, unmatchedFirst, disabled, expanded,
          wrapperClass, list, triggerText, last, pc>>

\* Everything but the record of the last event and the platform's fixed choice.
widget == <<selectOptions, selectValue, disabled, expanded, wrapperClass,
            list, triggerText>>

----------------------------------------------------------------------------
(* jQuery and DOM helpers *)

\* The indices (0-based) of a sequence.
Indices(s) == 0 .. (Len(s) - 1)

\* The element of index k.
At(s, k) == s[k + 1]

\* $.fn.eq(k): index k, counted from the end when k is negative; -1 when
\* there is no such element.
eq(s, k) ==
    IF k >= 0
    THEN IF k < Len(s) THEN k ELSE -1
    ELSE IF Len(s) + k >= 0 THEN Len(s) + k ELSE -1

\* $.fn.prev('li'): the sibling before index k, -1 (the empty set) if none.
prev(s, k) == IF k = -1 \/ k = 0 THEN -1 ELSE k - 1

\* A next('li') that wraps around to the first sibling.
nextWrapping(s, k) == IF k = -1 THEN -1 ELSE (k + 1) % Len(s)

\* $.fn.next('li'): the sibling after index k, -1 (the empty set) if none.
next(s, k) == IF k = -1 \/ k = Len(s) - 1 THEN -1 ELSE k + 1

\* list.find(selectedEl): the indices of the <li>s carrying the selected
\* class, in document order.
selectedEl(l) == {k \in Indices(l) : At(l, k).selected}

Min(S) == CHOOSE x \in S : \A y \in S : x <= y
Max(S) == CHOOSE x \in S : \A y \in S : x >= y

\* list.find(selectedEl).index(): the index of the first selected <li>,
\* -1 when none is selected.
selection == IF selectedEl(list) = {} THEN -1 ELSE Min(selectedEl(list))

\* $.fn.data('value'): the data-value attribute, converted by jQuery: the
\* literals true and false become booleans, a string that is the canonical
\* form of a number becomes that number, other strings stay strings.
data(attr) ==
    IF attr \in {"true", "false"} THEN [type |-> "boolean", str |-> attr]
    ELSE IF attr \in {"0", "1", "2"} THEN [type |-> "number", str |-> attr]
    ELSE [type |-> "string", str |-> attr]

\* The selector '[value=' + value + ']': string concatenation writes any
\* value out as text.
valueSelector(value) == value.str

\* selectElement.val(value) selects the options whose value is strictly
\* equal to the argument; a number argument is converted to a string first,
\* a boolean is not, and equals no option's value.
valSelects(value, optionValue) ==
    /\ value.type \in {"string", "number"}
    /\ value.str = optionValue

----------------------------------------------------------------------------
(* Construction *)

\* The native <select>s: 1 .. MaxOptions options, each with a value, the
\* text of its position and possibly the selected attribute.
NativeSelects ==
    UNION {[1 .. n -> [value : Values, text : {"-"}, selected : BOOLEAN]] :
           n \in 1 .. MaxOptions}

WithLabels(opts) == [k \in DOMAIN opts |-> [opts[k] EXCEPT !.text = Labels[k]]]

\* The value the platform gives a single <select> when parsed: that of the
\* last option with the selected attribute, or of the first option.
initialValue(opts) ==
    LET marked == {k \in DOMAIN opts : opts[k].selected}
    IN  IF marked = {} THEN opts[1].value ELSE opts[Max(marked)].value

\* A list.append that adds a copy of each node instead of moving it.
appendNodesCopied(l, nodes) == l \o nodes

\* list.append(listOfOptions): each node of the array is moved to the end
\* of the list, in the array's order (a node has one place in the DOM).
RECURSIVE appendNodes(_, _)
appendNodes(l, nodes) ==
    IF nodes = <<>> THEN l
    ELSE appendNodes(Append(SelectSeq(l, LAMBDA x : x # Head(nodes)), Head(nodes)),
                     Tail(nodes))

\* The $.each loop of createCustomSelect over the options key .. Len(opts):
\* acc holds listOfOptions and the list (as option positions) and the
\* trigger's text.
RECURSIVE eachOption(_, _, _)
eachOption(opts, key, acc) ==
    IF key > Len(opts) THEN acc
    ELSE LET item == opts[key]
             listOfOptions == Append(acc.listOfOptions, key)
         IN  eachOption(opts, key + 1,
                 [listOfOptions |-> listOfOptions,
                  list |-> appendNodes(acc.list, listOfOptions),
                  triggerText |-> IF item.selected THEN item.text
                                  ELSE acc.triggerText])

\* createCustomSelect: the <li>s built from the options and the trigger's
\* text; an <li> gets the selected class when item.attr('selected') is
\* 'selected', that is when its option carries the selected attribute.
createCustomSelect(opts) ==
    LET built == eachOption(opts, 1,
                     [listOfOptions |-> <<>>, list |-> <<>>, triggerText |-> ""])
    IN  [list |-> [k \in 1 .. Len(built.list) |->
                      LET item == opts[built.list[k]]
                      IN  [value |-> item.value, text |-> item.text,
                           selected |-> item.selected]],
         triggerText |-> built.triggerText]

Init ==
    /\ \E opts \in NativeSelects : selectOptions = WithLabels(opts)
    /\ selectValue = initialValue(selectOptions)
    /\ unmatchedFirst \in BOOLEAN
    /\ disabled \in BOOLEAN
    /\ expanded = FALSE
    /\ wrapperClass = IF disabled THEN {disabledClass} ELSE {}
    /\ list = createCustomSelect(selectOptions).list
    /\ triggerText = createCustomSelect(selectOptions).triggerText
    /\ last = [type |-> "init", arg |-> 0, prevented |-> FALSE]
    /\ pc = "idle"

----------------------------------------------------------------------------
(* Handlers *)

\* updateTriggerText
updateTriggerText(value) == triggerText' = value

\* An openCustomSelect that forgets to set the expanded flag.
openWithoutFlag ==
    /\ wrapperClass' = wrapperClass \cup {expandedClass}
    /\ expanded' = expanded

\* openCustomSelect
openCustomSelect ==
    /\ wrapperClass' = wrapperClass \cup {expandedClass}
    /\ expanded' = TRUE

\* A closeCustomSelect that forgets to remove the expanded class.
closeWithoutClass ==
    /\ wrapperClass' = wrapperClass
    /\ expanded' = FALSE

\* closeCustomSelect
closeCustomSelect ==
    /\ wrapperClass' = wrapperClass \ {expandedClass}
    /\ expanded' = FALSE

\* A toggleCustomSelect without the disabled guard.
toggleUnguarded == IF expanded THEN closeCustomSelect ELSE openCustomSelect

\* toggleCustomSelect
toggleCustomSelect ==
    IF disabled THEN UNCHANGED <<wrapperClass, expanded>>
    ELSE IF expanded THEN closeCustomSelect ELSE openCustomSelect

\* changeSelectItem(selection): selection is the jQuery set of option
\* buttons, given as the sequence of their <li>s; data() reads the first,
\* and gives undefined for an empty set.
changeSelectItem(sel) ==
    LET value == IF sel = <<>> THEN [type |-> "undefined", str |-> "undefined"]
                 ELSE data(sel[1].value)
        cleared == [k \in DOMAIN selectOptions |->
                       [selectOptions[k] EXCEPT !.selected = FALSE]]
        marked == [k \in DOMAIN cleared |->
                      IF cleared[k].value = valueSelector(value)
                      THEN [cleared[k] EXCEPT !.selected = TRUE]
                      ELSE cleared[k]]
        matching == {k \in DOMAIN marked : valSelects(value, marked[k].value)}
    IN  /\ selectOptions' = marked
        /\ selectValue' = IF matching # {} THEN marked[Max(matching)].value
                          ELSE IF unmatchedFirst THEN marked[1].value
                          ELSE NoValue

\* A changeSelectElement that does not deselect what was selected.
changeSelectElementKeeping(target) ==
    LET selected == [list EXCEPT ![target + 1].selected = TRUE]
    IN  /\ list' = selected
        /\ updateTriggerText(At(selected, target).text)
        /\ changeSelectItem(<<At(selected, target)>>)

\* changeSelectElement(selection): selection is the clicked option button,
\* given as the index of its <li>.
changeSelectElement(target) ==
    LET deselected == [k \in DOMAIN list |-> [list[k] EXCEPT !.selected = FALSE]]
        selected == [deselected EXCEPT ![target + 1].selected = TRUE]
    IN  /\ list' = selected
        /\ updateTriggerText(At(selected, target).text)
        /\ changeSelectItem(<<At(selected, target)>>)

\* handleCustomListClick(e): e.target is the option button of index target,
\* or (target = -1) an element of the list that is no button.
handleCustomListClick(target) ==
    IF disabled
    THEN /\ UNCHANGED widget
         /\ last' = [type |-> "listclick", arg |-> target, prevented |-> TRUE]
    ELSE /\ IF target # -1
            THEN toggleCustomSelect /\ changeSelectElement(target)
            ELSE UNCHANGED <<wrapperClass, expanded, list, triggerText,
                             selectOptions, selectValue>>
         /\ UNCHANGED disabled
         /\ last' = [type |-> "listclick", arg |-> target, prevented |-> TRUE]

\* A key test whose second branch takes every key that is not Up or Left.
nextSelectionAnyKey(keyCode) ==
    IF keyCode = 38 \/ keyCode = 37 THEN prev(list, eq(list, selection))
    ELSE next(list, eq(list, selection))

\* handleKeyboardInput(e), the INPUT part: the <li> the key aims at, -1 (null
\* or the empty set) when the key is no arrow or there is no such sibling.
nextSelectionFor(keyCode) ==
    IF keyCode = 38 \/ keyCode = 37 THEN prev(list, eq(list, selection))
    ELSE IF keyCode = 40 \/ keyCode = 39 THEN next(list, eq(list, selection))
    ELSE -1

\* handleKeyboardInput(e), the part that moves the selection: the <li>
\* before or after the first selected one gets the selected class and
\* gives the trigger its text, the <li> at eq(selection) loses the class,
\* and the first button then found selected goes to the native <select>.
moveSelection(keyCode) ==
    LET nextSelection == nextSelectionFor(keyCode)
        added == IF nextSelection = -1 THEN list
                 ELSE [list EXCEPT ![nextSelection + 1].selected = TRUE]
        removed == IF eq(added, selection) = -1 THEN added
                   ELSE [added EXCEPT ![eq(added, selection) + 1].selected = FALSE]
        found == SelectSeq(removed, LAMBDA li : li.selected)
    IN  IF nextSelection # -1
        THEN /\ list' = removed
             /\ updateTriggerText(At(list, nextSelection).text)
             /\ changeSelectItem(found)
        ELSE UNCHANGED <<list, triggerText, selectOptions, selectValue>>

\* A handleKeyboardInput that closes the list after a move, as a click does.
handleKeyboardInputClosing(keyCode) ==
    /\ moveSelection(keyCode)
    /\ IF list' # list THEN closeCustomSelect
       ELSE UNCHANGED <<wrapperClass, expanded>>

\* handleKeyboardInput(e): nothing but the selection is touched.
handleKeyboardInput(keyCode) ==
    /\ moveSelection(keyCode)
    /\ UNCHANGED <<wrapperClass, expanded>>

\* A disable case that compares instead of assigning.
disableCompared == disabled' = disabled

\* handleKeyboardSelect(e), case 'disable'.
disableCase == disabled' = TRUE

\* handleKeyboardSelect(e), for the events focus, blur, keyup and disable.
handleKeyboardSelect(type, keyCode) ==
    IF disabled
    THEN /\ UNCHANGED widget
         /\ last' = [type |-> type, arg |-> keyCode, prevented |-> TRUE]
    ELSE /\ \/ /\ type = "keyup"
               /\ handleKeyboardInput(keyCode)
               /\ UNCHANGED disabled
            \/ /\ type = "blur"
               /\ wrapperClass' = wrapperClass \ {focusClass}
               /\ UNCHANGED <<expanded, disabled, list, triggerText,
                              selectOptions, selectValue>>
            \/ /\ type = "focus"
               /\ wrapperClass' = wrapperClass \cup {focusClass}
               /\ UNCHANGED <<expanded, disabled, list, triggerText,
                              selectOptions, selectValue>>
            \/ /\ type = "disable"
               /\ disableCase
               /\ UNCHANGED <<expanded, wrapperClass, list, triggerText,
                              selectOptions, selectValue>>
         /\ last' = [type |-> type, arg |-> keyCode, prevented |-> TRUE]

----------------------------------------------------------------------------
(* The events bound by bindEventHandler *)

\* trigger.on('click', toggleCustomSelect): the handler's return value
\* false (the disabled case) is what suppresses the default.
TriggerClick ==
    /\ toggleCustomSelect
    /\ UNCHANGED <<disabled, list, triggerText, selectOptions, selectValue>>
    /\ last' = [type |-> "click", arg |-> 0, prevented |-> disabled]
    /\ UNCHANGED <<unmatchedFirst, pc>>

\* list.on('click', handleCustomListClick)
ListClick ==
    /\ \E target \in {-1} \cup Indices(list) : handleCustomListClick(target)
    /\ UNCHANGED <<unmatchedFirst, pc>>

\* on('focus blur keyup disable', handleKeyboardSelect)
KeyUp ==
    /\ \E keyCode \in KeyCodes : handleKeyboardSelect("keyup", keyCode)
    /\ UNCHANGED <<unmatchedFirst, pc>>

Focus ==
    /\ handleKeyboardSelect("focus", 0)
    /\ UNCHANGED <<unmatchedFirst, pc>>

Blur ==
    /\ handleKeyboardSelect("blur", 0)
    /\ UNCHANGED <<unmatchedFirst, pc>>

Disable ==
    /\ handleKeyboardSelect("disable", 0)
    /\ UNCHANGED <<unmatchedFirst, pc>>

Next == TriggerClick \/ ListClick \/ KeyUp \/ Focus \/ Blur \/ Disable

Spec == Init /\ [][Next]_vars

----------------------------------------------------------------------------
(* The click on an option, statement by statement.  Events are handled one
   at a time, so every other event waits for pc = "idle". *)

\* handleCustomListClick, line 161: toggleCustomSelect().
ClickToggle ==
    /\ pc = "idle"
    /\ ~disabled
    /\ \E target \in Indices(list) :
           last' = [type |-> "listclick", arg |-> target, prevented |-> FALSE]
    /\ toggleCustomSelect
    /\ pc' = "deselect"
    /\ UNCHANGED <<disabled, list, triggerText, selectOptions, selectValue,
                   unmatchedFirst>>

\* changeSelectElement, line 175: the selected class is removed from every
\* option's <li>.
ClickDeselect ==
    /\ pc = "deselect"
    /\ list' = [k \in DOMAIN list |-> [list[k] EXCEPT !.selected = FALSE]]
    /\ pc' = "select"
    /\ UNCHANGED <<disabled, expanded, wrapperClass, triggerText, selectOptions,
                   selectValue, unmatchedFirst, last>>

\* A line 176 that also writes the native <select>, before the trigger's
\* text is set.
ClickSelectCommitting ==
    /\ pc = "select"
    /\ list' = [list EXCEPT ![last.arg + 1].selected = TRUE]
    /\ changeSelectItem(<<At(list, last.arg)>>)
    /\ pc' = "text"
    /\ UNCHANGED <<disabled, expanded, wrapperClass, triggerText,
                   unmatchedFirst, last>>

\* changeSelectElement, line 176: the clicked button's <li> gets the
\* selected class.
ClickSelect ==
    /\ pc = "select"
    /\ list' = [list EXCEPT ![last.arg + 1].selected = TRUE]
    /\ pc' = "text"
    /\ UNCHANGED <<disabled, expanded, wrapperClass, triggerText, selectOptions,
                   selectValue, unmatchedFirst, last>>

\* changeSelectElement, line 177: updateTriggerText.
ClickText ==
    /\ pc = "text"
    /\ updateTriggerText(At(list, last.arg).text)
    /\ pc' = "commit"
    /\ UNCHANGED <<disabled, expanded, wrapperClass, list, selectOptions,
                   selectValue, unmatchedFirst, last>>

\* changeSelectElement, line 180: changeSelectItem(selection); then
\* handleCustomListClick, line 165: e.preventDefault().
ClickCommit ==
    /\ pc = "commit"
    /\ changeSelectItem(<<At(list, last.arg)>>)
    /\ last' = [last EXCEPT !.prevented = TRUE]
    /\ pc' = "idle"
    /\ UNCHANGED <<disabled, expanded, wrapperClass, list, triggerText,
                   unmatchedFirst>>

\* A click on the list that selects nothing: the widget is disabled or the
\* target is no button.
ClickIgnored ==
    /\ pc = "idle"
    /\ \E target \in {-1} \cup Indices(list) :
           /\ disabled \/ target = -1
           /\ handleCustomListClick(target)
    /\ UNCHANGED <<unmatchedFirst, pc>>

\* The other events, each handled whole.
OtherEvent ==
    /\ pc = "idle"
    /\ TriggerClick \/ KeyUp \/ Focus \/ Blur \/ Disable

StepNext ==
    \/ ClickToggle
    \/ ClickDeselect
    \/ ClickSelect
    \/ ClickText
    \/ ClickCommit
    \/ ClickIgnored
    \/ OtherEvent

StepSpec == Init /\ [][StepNext]_vars

----------------------------------------------------------------------------
(* Properties *)

\* The native <option>s carrying the selected attribute (0-based).
markedOptions == {k \in Indices(selectOptions) : At(selectOptions, k).selected}

\* What a select or a selectRelative may change.
selectionState == <<list, triggerText, selectOptions, selectValue>>

\* The last event was a click on the option button of a valid index, on a
\* widget that was not disabled.
Selected == last.type = "listclick" /\ last.arg # -1 /\ ~disabled

\* The index selectRelative aims at from the current selection, for the
\* key of the step being taken.
candidate(keyCode) ==
    IF keyCode \in {37, 38} THEN selection - 1 ELSE selection + 1

\* C1: in every reachable state one option is at once the only one marked
\* selected in the custom list, the one whose label the trigger shows and
\* the one whose value the native control holds.
C1_ViewsAgree ==
    \E k \in Indices(list) :
        /\ selectedEl(list) = {k}
        /\ triggerText = At(list, k).text
        /\ selectValue = At(list, k).value

\* C2: after a click on option i of a widget that is not disabled, the
\* native value is option i's value, the selected index is i and the
\* trigger shows option i's label.
C2_SelectSetsAllViews ==
    Selected =>
        /\ selectValue = At(list, last.arg).value
        /\ selection = last.arg
        /\ triggerText = At(list, last.arg).text

\* C3: in every state after construction exactly one option is selected.
C3_ExactlyOneSelected == Cardinality(selectedEl(list)) = 1

\* C4: after construction, with several entries marked selected the last
\* marked one is the only selected option and gives the trigger its label;
\* with no entry marked, option 0 is selected and gives the label.
C4_InitialSelection ==
    last.type = "init" =>
        /\ Cardinality(markedOptions) > 1 =>
               /\ selectedEl(list) = {Max(markedOptions)}
               /\ triggerText = At(list, Max(markedOptions)).text
        /\ markedOptions = {} =>
               /\ selectedEl(list) = {0}
               /\ triggerText = At(list, 0).text

\* C5: while disabled is true, no option click, key-up or trigger click
\* changes the widget (selection, expanded, focus, trigger label, disabled)
\* or the native control.
C5_DisabledChangesNothing ==
    [][(disabled /\ last'.type \in {"click", "listclick", "keyup"})
          => UNCHANGED widget]_vars

\* C5 witness: a widget disabled by the signal while open and focused, and
\* then clicked on an option.
C5_Witness ==
    /\ disabled
    /\ disabledClass \notin wrapperClass
    /\ expanded
    /\ focusClass \in wrapperClass
    /\ last.type = "listclick"
    /\ last.arg # -1

\* C6: after a click on an option of a widget that is not disabled, the
\* list is closed, whatever it was before.
C6_SelectCloses == Selected => ~expanded

\* C7: a key-up never changes the expansion state.
C7_KeyUpKeepsExpansion ==
    [][last'.type = "keyup" => expanded' = expanded]_vars

\* C7 witness: the Down key has moved the selection of an open, enabled
\* widget to its last option, and the list is still open.
C7_Witness ==
    /\ last.type = "keyup"
    /\ last.arg = 40
    /\ ~disabled
    /\ expanded
    /\ Len(list) = MaxOptions
    /\ selectedEl(list) = {MaxOptions - 1}
    /\ triggerText = At(list, MaxOptions - 1).text
    /\ selectValue = At(list, MaxOptions - 1).value
    /\ ~At(selectOptions, 0).selected

C9_MovesByOne ==
    [][(/\ last'.type = "keyup"
        /\ last'.arg \in {37, 38, 39, 40}
        /\ ~disabled
        /\ candidate(last'.arg) \in Indices(list))
          => /\ selection' = candidate(last'.arg)
             /\ selectValue' = At(list, candidate(last'.arg)).value
             /\ triggerText' = At(list, candidate(last'.arg)).text
             /\ selection \in Indices(list) /\ ~At(list', selection).selected]_vars

\* C10: a click on option i directly after a click on option i, on an
\* enabled widget, leaves selection, native control, trigger label and
\* expansion state as the first click left them.
C10_SelectIdempotent ==
    [][(Selected /\ last' = last)
          => UNCHANGED <<selectionState, expanded>>]_vars

\* The native options whose value is v (0-based).
optionsWithValue(v) ==
    {k \in Indices(selectOptions) : At(selectOptions, k).value = v}

\* C11: after a blur on a widget that is not disabled, the focus indicator
\* is off and the list is closed.
C11_BlurCloses ==
    (last.type = "blur" /\ ~disabled)
        => (focusClass \notin wrapperClass /\ ~expanded)

\* C12: on a widget that is not disabled a trigger click flips the
\* expansion state and leaves selection, trigger label and native control
\* alone; so a second click in a row undoes the first.
C12_TriggerClickFlips ==
    [][(last'.type = "click" /\ ~disabled)
          => /\ expanded' = ~expanded
             /\ UNCHANGED selectionState
             /\ (last.type = "click" /\ expanded) => ~expanded']_vars

\* C12 witness: the second of two trigger clicks in a row on an enabled
\* widget has closed the list again; no click on an option came between
\* (the trigger text is still the empty one of a construction with no
\* option marked).
C12_Witness ==
    /\ last.type = "click"
    /\ ~disabled
    /\ ~expanded
    /\ expandedClass \notin wrapperClass
    /\ triggerText = ""
    /\ Len(list) > 1

\* C13: every handled event has its default suppressed, in every state of
\* the widget.
C13_DefaultSuppressed == last.type # "init" => last.prevented

\* C14: disabled never goes from true to false, and a disable signal
\* leaves it true.
C14_DisabledOneWay ==
    [][(disabled => disabled') /\ (last'.type = "disable" => disabled')]_vars

\* C14 witness: a widget constructed enabled (the wrapper has no disabled
\* class) was disabled by the signal, and a later event left it disabled.
C14_Witness ==
    /\ disabled
    /\ disabledClass \notin wrapperClass
    /\ last.type = "focus"

\* The steps of a click on an option: the one that starts it and the ones
\* that follow until pc is "idle" again.
SelectStep == pc # "idle" \/ pc' # "idle"

\* The custom list and the trigger show the clicked option as the selection.
Rendered ==
    /\ selectedEl(list) = {last.arg}
    /\ triggerText = At(list, last.arg).text

C16_CommitMarksAndSets ==
    [][(/\ ~disabled
        /\ \/ last'.type = "listclick" /\ last'.arg # -1
           \/ last'.type = "keyup" /\ list' # list)
          => LET v == IF last'.type = "listclick" THEN At(list, last'.arg).value
                      ELSE At(list', selection').value
             IN  /\ {k \in Indices(selectOptions') :
                        At(selectOptions', k).selected} = optionsWithValue(v)
                 /\ selectValue' = v]_vars

C18_FlagMatchesClass == expanded <=> (expandedClass \in wrapperClass)

\* C18 witness: the list was opened by a trigger click and carries both
\* the flag and the class.
C18_Witness ==
    /\ last.type = "click"
    /\ expanded
    /\ expandedClass \in wrapperClass

\* C19: after a click on an option of an enabled widget the clicked option
\* is the only one visually marked selected.
C19_ClickMarksOnlyTarget == Selected => selectedEl(list) = {last.arg}

\* C19 witness: the first option of a list of the largest size was clicked
\* and is the only one marked.
C19_Witness ==
    /\ Selected
    /\ last.arg = 0
    /\ Len(list) = MaxOptions
    /\ selectedEl(list) = {0}
    /\ triggerText = At(list, 0).text

\* C20: a key-up of a key that is no arrow changes nothing of the widget
\* or the native control.
C20_OtherKeysChangeNothing ==
    [][(last'.type = "keyup" /\ last'.arg \notin {37, 38, 39, 40})
          => UNCHANGED widget]_vars

\* C20 witness: Enter was released on an enabled, open, focused widget.
C20_Witness ==
    /\ last.type = "keyup"
    /\ last.arg = 13
    /\ ~disabled
    /\ expanded
    /\ focusClass \in wrapperClass
    /\ selection > 0

====
